---- MODULE Spec2Model ----
(***************************************************************************)
(* Model of fft-rs: the Complex value type (src/src/numbers/complex.rs)    *)
(* and the FFT engine (src/src/lib.rs).                                    *)
(*                                                                         *)
(* Arithmetic is exact.  An f64 is modelled by an element of the field     *)
(* Q(sqrt2, sqrt3), the real subfield of the 24th cyclotomic field, so     *)
(* that cos and sin of every multiple of pi/12 are exact and the twiddle   *)
(* factors of every size dividing 24 are exact roots of unity.             *)
(* A real is <<a, b, c, d, e>>, meaning                                    *)
(*      (a + b*sqrt2 + c*sqrt3 + d*sqrt6) / 2^e                            *)
(* in lowest terms; e = -1 marks NaN.                                      *)
(***************************************************************************)
EXTENDS Integers, Sequences, FiniteSets, TLC

VARIABLES twiddle_cache, current_size, other, call

vars == <<twiddle_cache, current_size, other, call>>

(***************************************************************************)
(* Bounds                                                                  *)
(***************************************************************************)
\* longest complex signal handed to transform
MaxLen == 6
\* longest real signal handed to transform_real
MaxRealLen == 3
\* longest signals of the linearity scenario
LinMaxLen == 5
\* longest signals of the two-engine scenario
DetMaxLen == 4

(***************************************************************************)
(* f64, exactly                                                            *)
(***************************************************************************)
NaN == <<0, 0, 0, 0, -1>>

IsNaN(x) == x[5] = -1

RECURSIVE Pow2(_)
Pow2(k) == IF k = 0 THEN 1 ELSE 2 * Pow2(k - 1)

RECURSIVE Reduce(_)
Reduce(x) ==
    IF x[5] > 0 /\ x[1] % 2 = 0 /\ x[2] % 2 = 0 /\ x[3] % 2 = 0 /\ x[4] % 2 = 0
    THEN Reduce(<<x[1] \div 2, x[2] \div 2, x[3] \div 2, x[4] \div 2, x[5] - 1>>)
    ELSE x

F(k) == <<k, 0, 0, 0, 0>>

FNeg(x) == IF IsNaN(x) THEN NaN ELSE <<-x[1], -x[2], -x[3], -x[4], x[5]>>

FAdd(x, y) ==
    IF IsNaN(x) \/ IsNaN(y) THEN NaN
    ELSE IF x[5] = y[5]
    THEN Reduce(<<x[1] + y[1], x[2] + y[2], x[3] + y[3], x[4] + y[4], x[5]>>)
    ELSE LET e  == IF x[5] > y[5] THEN x[5] ELSE y[5]
             sx == Pow2(e - x[5])
             sy == Pow2(e - y[5])
         IN Reduce(<<sx * x[1] + sy * y[1], sx * x[2] + sy * y[2],
                     sx * x[3] + sy * y[3], sx * x[4] + sy * y[4], e>>)

FSub(x, y) == FAdd(x, FNeg(y))

\* x is a rational number (no sqrt2, sqrt3 or sqrt6 part)
IsRational(x) == x[2] = 0 /\ x[3] = 0 /\ x[4] = 0

\* the product; a rational factor scales the four coefficients of the other
FMul(x, y) ==
    IF IsNaN(x) \/ IsNaN(y) THEN NaN
    ELSE IF IsRational(y)
    THEN Reduce(<<x[1]*y[1], x[2]*y[1], x[3]*y[1], x[4]*y[1], x[5] + y[5]>>)
    ELSE IF IsRational(x)
    THEN Reduce(<<x[1]*y[1], x[1]*y[2], x[1]*y[3], x[1]*y[4], x[5] + y[5]>>)
    ELSE Reduce(<<x[1]*y[1] + 2*x[2]*y[2] + 3*x[3]*y[3] + 6*x[4]*y[4],
                  x[1]*y[2] + x[2]*y[1] + 3*(x[3]*y[4] + x[4]*y[3]),
                  x[1]*y[3] + x[3]*y[1] + 2*(x[2]*y[4] + x[4]*y[2]),
                  x[1]*y[4] + x[4]*y[1] + x[2]*y[3] + x[3]*y[2],
                  x[5] + y[5]>>)

\* f64::mul_add(self, a, b) = self * a + b
mul_add(x, a, b) == FAdd(FMul(x, a), b)

(***************************************************************************)
(* An angle is [finite, m]: m * pi/12 when finite, else -2.0*PI/0.0 = -inf. *)
(***************************************************************************)
Angle(m) == [finite |-> TRUE, m |-> m]

NegInf == [finite |-> FALSE, m |-> 0]

\* cos(m * pi/12) for m in 0..6
CosTable == << <<1, 0, 0, 0, 0>>, <<0, 1, 0, 1, 2>>, <<0, 0, 1, 0, 1>>,
               <<0, 1, 0, 0, 1>>, <<1, 0, 0, 0, 1>>, <<0, -1, 0, 1, 2>>,
               <<0, 0, 0, 0, 0>> >>

f64_cos(theta) ==
    IF ~theta.finite THEN NaN
    ELSE LET m == theta.m % 24
             r == IF m > 12 THEN 24 - m ELSE m
         IN IF r > 6 THEN FNeg(CosTable[(12 - r) + 1]) ELSE CosTable[r + 1]

f64_sin(theta) == IF ~theta.finite THEN NaN ELSE f64_cos(Angle(theta.m - 6))

(***************************************************************************)
(* Complex                                                                 *)
(***************************************************************************)
Complex(re, im) == [re |-> re, im |-> im]

from_polar(r, theta) == Complex(FMul(r, f64_cos(theta)), FMul(r, f64_sin(theta)))

Add(self, rhs) == Complex(FAdd(self.re, rhs.re), FAdd(self.im, rhs.im))

Sub(self, rhs) == Complex(FSub(self.re, rhs.re), FSub(self.im, rhs.im))

Mul(self, rhs) ==
    LET re == mul_add(self.re, rhs.re, FNeg(FMul(self.im, rhs.im)))
        im == mul_add(self.re, rhs.im, FMul(self.im, rhs.re))
    IN Complex(re, im)

\* a compound product that reads the real part it has just written
MulAssignSequential(self, rhs) ==
    LET re == mul_add(self.re, rhs.re, FNeg(FMul(self.im, rhs.im)))
    IN [re |-> re, im |-> mul_add(re, rhs.im, FMul(self.im, rhs.re))]

\* the value of the left operand after  self *= rhs
MulAssign(self, rhs) ==
    [re |-> mul_add(self.re, rhs.re, FNeg(FMul(self.im, rhs.im))),
     im |-> mul_add(self.re, rhs.im, FMul(self.im, rhs.re))]

(***************************************************************************)
(* usize helpers                                                           *)
(***************************************************************************)
RECURSIVE is_power_of_two(_)
is_power_of_two(n) ==
    IF n <= 1 THEN n = 1 ELSE n % 2 = 0 /\ is_power_of_two(n \div 2)

RECURSIVE PowerAtLeast(_, _)
PowerAtLeast(p, x) == IF p >= x THEN p ELSE PowerAtLeast(2 * p, x)

\* a next power of two that is strictly greater than x
next_power_above(x) == PowerAtLeast(1, x + 1)

next_power_of_two(x) == PowerAtLeast(1, x)

\* (n as f64).log2() as u32, for n >= 1
RECURSIVE log2(_)
log2(n) == IF n <= 1 THEN 0 ELSE 1 + log2(n \div 2)

\* Vec::resize(n, value) on a vector no longer than n
RECURSIVE resize(_, _, _)
resize(v, n, value) == IF Len(v) >= n THEN v ELSE resize(Append(v, value), n, value)

InRange(v, k) == k >= 0 /\ k < Len(v)

(***************************************************************************)
(* FFT engine                                                              *)
(***************************************************************************)
\* -2.0 * PI / (size as f64), in units of pi/12
base_angle(size) == IF size = 0 THEN NegInf ELSE Angle(-(24 \div size))

\* the loop  for _ in 0..size  with `left` iterations to go
RECURSIVE PushFactors(_, _, _, _)
PushFactors(cache, factor, step, left) ==
    IF left = 0 THEN cache
    ELSE PushFactors(Append(cache, factor), MulAssign(factor, step), step, left - 1)

\* a generator that rotates before it pushes
TwiddlesRotatedFirst(size) ==
    LET step == from_polar(F(1), base_angle(size))
    IN PushFactors(<<>>, step, step, size)

\* the cache compute_twiddle_factors builds for a new size
Twiddles(size) ==
    PushFactors(<<>>, Complex(F(1), F(0)), from_polar(F(1), base_angle(size)), size)

\* a cache that is cleared before the size is compared
compute_clears_first(self, size) ==
    [twiddle_cache |-> IF size = self.current_size THEN <<>> ELSE Twiddles(size),
     current_size  |-> size]

\* the engine after compute_twiddle_factors(size)
compute_twiddle_factors(self, size) ==
    IF size = self.current_size THEN self
    ELSE [twiddle_cache |-> Twiddles(size), current_size |-> size]

RECURSIVE ReverseBits(_, _, _)
ReverseBits(rev, j, bits) ==
    IF bits = 0 THEN rev ELSE ReverseBits(2 * rev + (j % 2), j \div 2, bits - 1)

Swap(d, a, b) == [d EXCEPT ![a + 1] = d[b + 1], ![b + 1] = d[a + 1]]

\* a loop body that swaps whenever rev differs from i
PermStepBothWays(st, i, bits) ==
    LET rev == ReverseBits(0, i, bits)
    IN IF rev # i
       THEN IF InRange(st.data, rev)
            THEN [st EXCEPT !.data = Swap(st.data, i, rev)]
            ELSE [st EXCEPT !.index_ok = FALSE]
       ELSE st

\* the body of the loop of bit_reverse_permutation, at index i
PermStep(st, i, bits) ==
    LET rev == ReverseBits(0, i, bits)
    IN IF rev > i
       THEN IF InRange(st.data, rev)
            THEN [st EXCEPT !.data = Swap(st.data, i, rev)]
            ELSE [st EXCEPT !.index_ok = FALSE]
       ELSE st

\* the loop  for i in 1..n - 1  of bit_reverse_permutation, from index i on
RECURSIVE PermLoop(_, _, _)
PermLoop(st, i, bits) ==
    IF i >= Len(st.data) - 1 \/ ~st.index_ok THEN st
    ELSE PermLoop(PermStep(st, i, bits), i + 1, bits)

\* st.data after bit_reverse_permutation; index_ok is FALSE where it panics
bit_reverse_permutation(st) ==
    IF Len(st.data) = 0 THEN [st EXCEPT !.index_ok = FALSE]
    ELSE PermLoop(st, 1, log2(Len(st.data)))

\* a butterfly that ignores the twiddle stride
ButterflyUnitStride(st, cache, i, j, half, step) ==
    IF InRange(cache, j) /\ InRange(st.data, i + j) /\ InRange(st.data, i + j + half)
    THEN LET twiddle == cache[j + 1]
             even    == st.data[i + j + 1]
             odd     == Mul(st.data[i + j + half + 1], twiddle)
         IN [st EXCEPT !.data = [st.data EXCEPT ![i + j + 1] = Add(even, odd),
                                                ![i + j + half + 1] = Sub(even, odd)]]
    ELSE [st EXCEPT !.index_ok = FALSE]

\* a butterfly with the sum and the difference exchanged
ButterflyExchanged(st, cache, i, j, half, step) ==
    IF InRange(cache, j * step) /\ InRange(st.data, i + j) /\ InRange(st.data, i + j + half)
    THEN LET twiddle == cache[j * step + 1]
             even    == st.data[i + j + 1]
             odd     == Mul(st.data[i + j + half + 1], twiddle)
         IN [st EXCEPT !.data = [st.data EXCEPT ![i + j + 1] = Sub(even, odd),
                                                ![i + j + half + 1] = Add(even, odd)]]
    ELSE [st EXCEPT !.index_ok = FALSE]

\* one butterfly of fft_inplace
Butterfly(st, cache, i, j, half, step) ==
    IF InRange(cache, j * step) /\ InRange(st.data, i + j) /\ InRange(st.data, i + j + half)
    THEN LET twiddle == cache[j * step + 1]
             even    == st.data[i + j + 1]
             odd     == Mul(st.data[i + j + half + 1], twiddle)
         IN [st EXCEPT !.data = [st.data EXCEPT ![i + j + 1] = Add(even, odd),
                                                ![i + j + half + 1] = Sub(even, odd)]]
    ELSE [st EXCEPT !.index_ok = FALSE]

RECURSIVE InnerLoop(_, _, _, _, _, _)
InnerLoop(st, cache, i, j, half, step) ==
    IF j >= half \/ ~st.index_ok THEN st
    ELSE InnerLoop(Butterfly(st, cache, i, j, half, step), cache, i, j + 1, half, step)

RECURSIVE BlockLoop(_, _, _, _, _)
BlockLoop(st, cache, i, size, step) ==
    IF i >= Len(st.data) \/ ~st.index_ok THEN st
    ELSE BlockLoop(InnerLoop(st, cache, i, 0, size \div 2, step), cache, i + size, size, step)

RECURSIVE StageLoop(_, _, _, _)
StageLoop(st, cache, size, step) ==
    IF size > Len(st.data) \/ ~st.index_ok THEN st
    ELSE StageLoop(BlockLoop(st, cache, 0, size, step), cache, 2 * size, step \div 2)

\* an engine that builds its cache only when it has none
EnsureCacheOnce(self, n) ==
    IF self.current_size = 0 THEN compute_twiddle_factors(self, n) ELSE self

\* the engine after the cache check at the top of fft_inplace
EnsureCache(self, n) ==
    IF n # self.current_size THEN compute_twiddle_factors(self, n) ELSE self

\* the engine and the buffer after fft_inplace(data); permuted is the buffer
\* right after bit_reverse_permutation.  assert_ok is the debug assertion.
fft_inplace(self, data) ==
    LET n      == Len(data)
        engine == EnsureCache(self, n)
        perm   == bit_reverse_permutation([data |-> data, index_ok |-> TRUE])
        done   == StageLoop(perm, engine.twiddle_cache, 2, n \div 2)
    IN [twiddle_cache |-> engine.twiddle_cache,
        current_size  |-> engine.current_size,
        assert_ok     |-> is_power_of_two(n),
        index_ok      |-> done.index_ok,
        permuted      |-> perm.data,
        data          |-> done.data]

\* a buffer that keeps the length of the signal
Unpadded(signal) == signal

\* a buffer padded with ones
PaddedWithOnes(signal) ==
    resize(signal, next_power_of_two(Len(signal)), Complex(F(1), F(0)))

\* the padded buffer of transform and transform_real
Padded(signal) == resize(signal, next_power_of_two(Len(signal)), Complex(F(0), F(0)))

transform(self, signal) == fft_inplace(self, Padded(signal))

\* signal.iter().map(|&x| Complex::new(x, 0.0))
Lift(signal) == [k \in 1..Len(signal) |-> Complex(signal[k], F(0))]

transform_real(self, signal) == fft_inplace(self, Padded(Lift(signal)))

\* FFT::new()
new == [twiddle_cache |-> <<>>, current_size |-> 0]

(***************************************************************************)
(* Inputs                                                                  *)
(***************************************************************************)
\* sizes handed to compute_twiddle_factors: 0 and the divisors of 24 up to 12
Sizes == {0, 1, 2, 3, 4, 6, 8, 12}

ComplexSamples == {Complex(F(0), F(0)), Complex(F(1), F(-2))}

RealSamples == {F(0), F(3)}

SeqsUpTo(S, maxlen) == UNION {[1..len -> S] : len \in 0..maxlen}

ComplexSignals == SeqsUpTo(ComplexSamples, MaxLen)

RealSignals == SeqsUpTo(RealSamples, MaxRealLen)

(***************************************************************************)
(* State machine: one engine, any sequence of public calls.                *)
(* call is the last call and what it returned.                             *)
(***************************************************************************)
Self == [twiddle_cache |-> twiddle_cache, current_size |-> current_size]

NoCall == [op |-> "new", size |-> 0, hit |-> FALSE, input |-> <<>>, padded |-> <<>>,
           permuted |-> <<>>, out |-> <<>>, assert_ok |-> TRUE, index_ok |-> TRUE]

\* the record of a transform call: its input as complex samples, the buffer
\* handed to fft_inplace, the buffer after the permutation, the result
Returned(op, input, padded, r) ==
    [op |-> op, size |-> Len(padded), hit |-> FALSE, input |-> input,
     padded |-> padded, permuted |-> r.permuted, out |-> r.data,
     assert_ok |-> r.assert_ok, index_ok |-> r.index_ok]

Init ==
    /\ twiddle_cache = new.twiddle_cache
    /\ current_size = new.current_size
    /\ other = new
    /\ call = NoCall

Transform(signal) ==
    \E r \in {transform(Self, signal)} :
       /\ twiddle_cache' = r.twiddle_cache
       /\ current_size' = r.current_size
       /\ call' = Returned("transform", signal, Padded(signal), r)
       /\ UNCHANGED other

TransformReal(signal) ==
    \E r \in {transform_real(Self, signal)} :
       /\ twiddle_cache' = r.twiddle_cache
       /\ current_size' = r.current_size
       /\ call' = Returned("transform_real", Lift(signal), Padded(Lift(signal)), r)
       /\ UNCHANGED other

ComputeTwiddleFactors(size) ==
    \E r \in {compute_twiddle_factors(Self, size)} :
       /\ twiddle_cache' = r.twiddle_cache
       /\ current_size' = r.current_size
       /\ call' = [NoCall EXCEPT !.op = "compute_twiddle_factors", !.size = size,
                                 !.hit = (size = current_size)]
       /\ UNCHANGED other

Next ==
    \/ \E signal \in ComplexSignals : Transform(signal)
    \/ \E signal \in RealSignals : TransformReal(signal)
    \/ \E size \in Sizes : ComputeTwiddleFactors(size)

Spec == Init /\ [][Next]_vars

(***************************************************************************)
(* Reference definitions the properties are stated with                    *)
(***************************************************************************)
TransformOps == {"transform", "transform_real"}

\* e^{-2 pi i t / n}, for n dividing 24
RootOfUnity(n, t) ==
    LET theta == Angle(-((t % n) * (24 \div n)))
    IN Complex(f64_cos(theta), f64_sin(theta))

CPlus(u, v) == Complex(FAdd(u.re, v.re), FAdd(u.im, v.im))

CTimes(u, v) ==
    Complex(FSub(FMul(u.re, v.re), FMul(u.im, v.im)),
            FAdd(FMul(u.re, v.im), FMul(u.im, v.re)))

\* x padded with zeros to length n
ZeroPadded(x, n) == [m \in 1..n |-> IF m <= Len(x) THEN x[m] ELSE Complex(F(0), F(0))]

\* sum over m in [from, n) of x[m] * w^(k*m), x of length n
RECURSIVE DFTSum(_, _, _)
DFTSum(x, k, from) ==
    IF from >= Len(x) THEN Complex(F(0), F(0))
    ELSE CPlus(CTimes(x[from + 1], RootOfUnity(Len(x), k * from)), DFTSum(x, k, from + 1))

\* x[from] - x[from+1] + x[from+2] - ...
RECURSIVE AlternatingSum(_, _)
AlternatingSum(x, from) ==
    IF from >= Len(x) THEN Complex(F(0), F(0))
    ELSE CPlus(x[from + 1], CTimes(Complex(F(-1), F(0)), AlternatingSum(x, from + 1)))

RECURSIVE SumOf(_, _)
SumOf(x, from) ==
    IF from >= Len(x) THEN Complex(F(0), F(0)) ELSE CPlus(x[from + 1], SumOf(x, from + 1))

\* i with its low `bits` bits reversed
RECURSIVE Reversed(_, _)
Reversed(i, bits) ==
    IF bits = 0 THEN 0 ELSE (i % 2) * Pow2(bits - 1) + Reversed(i \div 2, bits - 1)

BitsOf(n) == CHOOSE b \in 0..n : Pow2(b) = n

(***************************************************************************)
(* Properties of the engine                                                *)
(***************************************************************************)
\* C1: the sequence a transform call returns is the DFT of the zero-padded
\* input in natural order: out[k] = sum_m xpad[m] * w^(k*m), w = e^{-2 pi i/n};
\* bin n/2 is the alternating sum of the padded samples
C1_OutputIsDFT ==
    call.op \in TransformOps =>
        LET n    == Len(call.out)
            xpad == ZeroPadded(call.input, n)
        IN /\ \A k \in 0..(n - 1) : call.out[k + 1] = DFTSum(xpad, k, 0)
           /\ n >= 2 => call.out[(n \div 2) + 1] = AlternatingSum(xpad, 0)

\* a transform of length 8 whose bin 1 has an irrational real part
C1_Witness ==
    /\ call.op = "transform"
    /\ Len(call.out) = 8
    /\ call.out[2].re[2] # 0

\* C2: the returned sequence is as long as the smallest power of two that is
\* at least the input length L (1 for L = 0), and as long as the input
\* exactly when L is a power of two
C2_OutputLength ==
    call.op \in TransformOps =>
        LET L == Len(call.input)
            n == Len(call.out)
        IN /\ \E b \in 0..n : n = Pow2(b)
           /\ n >= L
           /\ \A b \in 0..n : Pow2(b) >= L => Pow2(b) >= n
           /\ L = 0 => n = 1
           /\ (n = L) <=> (\E b \in 0..L : L = Pow2(b))

\* a signal of length 5 came back with length 8
C2_Witness ==
    /\ call.op \in TransformOps
    /\ Len(call.input) = 5
    /\ Len(call.out) = 8

\* C3: bin 0 is the sum of the input samples, padded or not; for a constant
\* input c of power-of-two length n it is n*c
C3_BinZeroIsSum ==
    call.op \in TransformOps =>
        /\ call.out[1] = SumOf(call.input, 0)
        /\ \A c \in ComplexSamples \cup {Complex(x, F(0)) : x \in RealSamples} :
              (/\ Len(call.input) = Len(call.out)
               /\ \A m \in 1..Len(call.input) : call.input[m] = c)
              => call.out[1] = Complex(FMul(F(Len(call.input)), c.re),
                                       FMul(F(Len(call.input)), c.im))

\* the real signal [3, 3, 3] was padded to length 4 and bin 0 is 9
C3_Witness ==
    /\ call.op = "transform_real"
    /\ call.input = <<Complex(F(3), F(0)), Complex(F(3), F(0)), Complex(F(3), F(0))>>
    /\ Len(call.out) = 4
    /\ call.out[1] = Complex(F(9), F(0))

\* C4: the cache has current_size entries, entry k is e^{-2 pi i k / n}, the
\* k-th power of the rotation step, and entry 0 is exactly 1
C4_CacheMatchesSize ==
    /\ Len(twiddle_cache) = current_size
    /\ current_size > 0 =>
          /\ twiddle_cache[1] = Complex(F(1), F(0))
          /\ \A k \in 0..(current_size - 1) :
                twiddle_cache[k + 1] = RootOfUnity(current_size, k)

\* an explicit request built the cache of a size that is not a power of two
C4_Witness ==
    /\ call.op = "compute_twiddle_factors"
    /\ current_size = 12
    /\ Len(twiddle_cache) = 12

\* C5: a request for the size the cache already has, by
\* compute_twiddle_factors or by a transform of that padded length, leaves
\* twiddle_cache and current_size as they were
C5_SameSizeIsNoOp ==
    [][(/\ call'.op \in TransformOps \cup {"compute_twiddle_factors"}
        /\ call'.size = current_size)
       => (twiddle_cache' = twiddle_cache /\ current_size' = current_size)]_vars

\* compute_twiddle_factors was asked for the size the cache already had
C5_Witness ==
    /\ call.op = "compute_twiddle_factors"
    /\ call.hit
    /\ call.size > 1
    /\ Len(twiddle_cache) = call.size

\* C8: every transform call reaches fft_inplace with a power-of-two length,
\* the assertion holds and every buffer and cache index is in range
C8_NoCallFails ==
    call.op \in TransformOps =>
        /\ call.assert_ok
        /\ call.index_ok
        /\ Len(call.padded) >= 1
        /\ \E b \in 0..Len(call.padded) : Len(call.padded) = Pow2(b)
        /\ Len(call.out) = Len(call.padded)

\* the empty signal was transformed
C8_Witness ==
    /\ call.op = "transform"
    /\ call.input = <<>>
    /\ Len(call.out) = 1

\* C10: after bit_reverse_permutation the element at position rev(i) is the
\* one that was at position i, for every i; fixed indices stay in place
C10_BitReversal ==
    call.op \in TransformOps =>
        LET n    == Len(call.padded)
            bits == BitsOf(n)
        IN /\ Len(call.permuted) = n
           /\ \A i \in 0..(n - 1) :
                 call.permuted[Reversed(i, bits) + 1] = call.padded[i + 1]
           /\ \A i \in 0..(n - 1) :
                 Reversed(i, bits) = i => call.permuted[i + 1] = call.padded[i + 1]

\* a buffer of length 8 that the permutation changed
C10_Witness ==
    /\ call.op = "transform"
    /\ Len(call.padded) = 8
    /\ call.permuted # call.padded

(***************************************************************************)
(* Two engines with different histories, given the same signal             *)
(***************************************************************************)
DetComplexSignals == SeqsUpTo(ComplexSamples, DetMaxLen)

DetRealSignals == SeqsUpTo(RealSamples, DetMaxLen)

WarmUp == [op |-> "warm_up", input |-> <<>>, out |-> <<>>, out2 |-> <<>>, differ |-> FALSE]

InitDet ==
    /\ twiddle_cache = new.twiddle_cache
    /\ current_size = new.current_size
    /\ other = new
    /\ call = WarmUp

ComputeOnFirst(size) ==
    \E r \in {compute_twiddle_factors(Self, size)} :
       /\ twiddle_cache' = r.twiddle_cache
       /\ current_size' = r.current_size
       /\ call' = WarmUp
       /\ UNCHANGED other

ComputeOnSecond(size) ==
    /\ other' = compute_twiddle_factors(other, size)
    /\ call' = WarmUp
    /\ UNCHANGED <<twiddle_cache, current_size>>

TransformOnBoth(signal) ==
    \E r1 \in {transform(Self, signal)}, r2 \in {transform(other, signal)} :
       /\ twiddle_cache' = r1.twiddle_cache
       /\ current_size' = r1.current_size
       /\ other' = [twiddle_cache |-> r2.twiddle_cache, current_size |-> r2.current_size]
       /\ call' = [op |-> "transform", input |-> signal, out |-> r1.data,
                   out2 |-> r2.data, differ |-> (Self # other)]

TransformRealOnBoth(signal) ==
    \E r1 \in {transform_real(Self, signal)}, r2 \in {transform_real(other, signal)} :
       /\ twiddle_cache' = r1.twiddle_cache
       /\ current_size' = r1.current_size
       /\ other' = [twiddle_cache |-> r2.twiddle_cache, current_size |-> r2.current_size]
       /\ call' = [op |-> "transform_real", input |-> Lift(signal), out |-> r1.data,
                   out2 |-> r2.data, differ |-> (Self # other)]

NextDet ==
    \/ \E size \in Sizes : ComputeOnFirst(size)
    \/ \E size \in Sizes : ComputeOnSecond(size)
    \/ \E signal \in DetComplexSignals : TransformOnBoth(signal)
    \/ \E signal \in DetRealSignals : TransformRealOnBoth(signal)

SpecDet == InitDet /\ [][NextDet]_vars

\* C7: two engines that got to their states by different earlier calls
\* return the same sequence for the same signal
C7_SameOutputOnAnyEngine ==
    call.op \in TransformOps => call.out = call.out2

\* two engines in different states transformed the same signal of length 4
C7_Witness ==
    /\ call.op = "transform"
    /\ call.differ
    /\ Len(call.out) = 4
    /\ call.out[2] # call.out[1]

(***************************************************************************)
(* A caller that transforms x, y and a*x + b*y with one engine             *)
(***************************************************************************)
\* the scalars a and b of a*x + b*y
ScalarsA == {Complex(F(2), F(0)), Complex(F(-1), F(1))}

ScalarsB == {Complex(F(3), F(-1))}

LinLengths == 0..LinMaxLen

\* a*x + b*y, sample by sample
Combination(a, x, b, y) == [m \in 1..Len(x) |-> Add(Mul(a, x[m]), Mul(b, y[m]))]

InitLin ==
    /\ twiddle_cache = new.twiddle_cache
    /\ current_size = new.current_size
    /\ other = new
    /\ \E len \in LinLengths :
         \E x \in [1..len -> ComplexSamples], y \in [1..len -> ComplexSamples] :
            \E a \in ScalarsA, b \in ScalarsB :
               call = [op |-> "signals", x |-> x, y |-> y, a |-> a, b |-> b,
                       out_x |-> <<>>, out_y |-> <<>>, out_sum |-> <<>>]

TransformThree ==
    /\ call.op = "signals"
    /\ \E rx \in {transform(Self, call.x)} :
         \E ry \in {transform([twiddle_cache |-> rx.twiddle_cache,
                               current_size |-> rx.current_size], call.y)} :
           \E rs \in {transform([twiddle_cache |-> ry.twiddle_cache,
                                 current_size |-> ry.current_size],
                                Combination(call.a, call.x, call.b, call.y))} :
              /\ twiddle_cache' = rs.twiddle_cache
              /\ current_size' = rs.current_size
              /\ call' = [call EXCEPT !.op = "linearity", !.out_x = rx.data,
                                      !.out_y = ry.data, !.out_sum = rs.data]
              /\ UNCHANGED other

NextLin == TransformThree

SpecLin == InitLin /\ [][NextLin]_vars

\* C6: transform(a*x + b*y) = a*transform(x) + b*transform(y), bin by bin
C6_Linearity ==
    call.op = "linearity" =>
        /\ Len(call.out_sum) = Len(call.out_x)
        /\ Len(call.out_sum) = Len(call.out_y)
        /\ \A k \in 1..Len(call.out_sum) :
              call.out_sum[k] = CPlus(CTimes(call.a, call.out_x[k]),
                                      CTimes(call.b, call.out_y[k]))

\* two different signals of length 5, two different scalars, padded to 8
C6_Witness ==
    /\ call.op = "linearity"
    /\ Len(call.x) = 5
    /\ call.x # call.y
    /\ call.a # call.b
    /\ Len(call.out_sum) = 8
    /\ call.out_sum[2].re[2] # 0

(***************************************************************************)
(* Complex products                                                        *)
(***************************************************************************)
Parts == {-1, 0, 2, 3, 5, 7}

InitComplex ==
    /\ twiddle_cache = new.twiddle_cache
    /\ current_size = new.current_size
    /\ other = new
    /\ \E a \in Parts, b \in Parts, c \in Parts, d \in Parts :
          call = [op |-> "operands", a |-> a, b |-> b, c |-> c, d |-> d,
                  x |-> Complex(F(a), F(b)), y |-> Complex(F(c), F(d)),
                  product |-> Complex(F(0), F(0))]

\* product = x * y
MulOp ==
    /\ call.op = "operands"
    /\ call' = [call EXCEPT !.op = "mul", !.product = Mul(call.x, call.y)]
    /\ UNCHANGED <<twiddle_cache, current_size, other>>

\* x *= y
MulAssignOp ==
    /\ call.op = "operands"
    /\ call' = [call EXCEPT !.op = "mul_assign", !.x = MulAssign(call.x, call.y)]
    /\ UNCHANGED <<twiddle_cache, current_size, other>>

NextComplex == MulOp \/ MulAssignOp

SpecComplex == InitComplex /\ [][NextComplex]_vars

\* C9: (a+bi)*(c+di) = (ac-bd) + (ad+bc)i, and x *= y leaves x with that same
\* product; (5,3)*(2,7) = (-11,41)
C9_Product ==
    LET expected == Complex(F(call.a * call.c - call.b * call.d),
                            F(call.a * call.d + call.b * call.c))
    IN /\ call.op = "mul" =>
            /\ call.product = expected
            /\ call.x = Complex(F(call.a), F(call.b))
       /\ call.op = "mul_assign" =>
            /\ call.x = expected
            /\ call.x = Mul(Complex(F(call.a), F(call.b)), call.y)
       /\ (call.op \in {"mul", "mul_assign"} /\ call.a = 5 /\ call.b = 3
              /\ call.c = 2 /\ call.d = 7)
          => expected = Complex(F(-11), F(41))

\* (5,3) *= (2,7) was carried out
C9_Witness ==
    /\ call.op = "mul_assign"
    /\ call.a = 5 /\ call.b = 3 /\ call.c = 2 /\ call.d = 7
    /\ call.x = Complex(F(-11), F(41))

====
